---- MODULE Spec2Model ----
(***************************************************************************)
(* MicroCore wiring.c: millis(), micros(), delay() and init() on an        *)
(* ATtiny13, together with the hardware they touch (SREG, timer0 and its   *)
(* overflow interrupt, the watchdog-driven millisecond counter).           *)
(*                                                                         *)
(* The CPU executes the mainline one statement at a time.  The timer       *)
(* counts on its own (Tick); an interrupt handler runs to completion       *)
(* between two mainline statements whenever its flag is set and the        *)
(* I bit of SREG is set.  Registers are modelled as the set of the names   *)
(* of their bits that are set.                                             *)
(***************************************************************************)
EXTENDS Integers, Sequences, FiniteSets, TLC

VARIABLES
  \* build configuration (preprocessor symbols)
  F_CPU, ENABLE_MICROS,
  \* hardware registers
  SREG, TCCR0B, TIMSK0, TIFR0, TCNT0,
  \* static storage
  timer0_overflow, wdt_counter,
  \* mainline: position and the locals of the function being executed
  pc, oldSREG, t, x, ms, m,
  \* observations kept for the properties (not read by the program)
  hist, mret, ctx, pair, sinceInit, entrySREG,
  trueOvf, tickEvents, callOvf, callT, callOk, raced, inits, rdLo,
  msArg, loops, ovfInDelay, entryTally, wdtEvents, mLo

config == <<F_CPU, ENABLE_MICROS>>
hw     == <<SREG, TCCR0B, TIMSK0, TIFR0, TCNT0>>
mem    == <<timer0_overflow, wdt_counter>>
locals == <<oldSREG, t, x, ms, m>>
obsMicros == <<hist, ctx, pair, entrySREG, callOvf, callT, callOk, raced, rdLo>>
obsDelay  == <<msArg, loops, ovfInDelay, entryTally>>
obsMillis == <<mret, mLo>>
obsTime   == <<trueOvf, tickEvents, wdtEvents>>
vars == <<config, hw, mem, pc, locals, obsMicros, obsDelay, obsMillis,
          obsTime, sinceInit, inits>>

-----------------------------------------------------------------------------
(* Bounds of the model *)

\* number of Tick steps of timer0 in one behaviour
MaxTickEvents == 3
\* largest argument given to delay()
MaxDelay == 3
\* number of watchdog interrupts in one behaviour
MaxWdtEvents == 17

\* how far timer0 advances in one Tick step: one tick, or the 255 ticks
\* that elapse while the mainline is busy in the sketch or in _delay_ms()
TickSteps == {1, 255}

-----------------------------------------------------------------------------
(* Fixed-width arithmetic *)
(* A uint32_t is the tuple of its four bytes, least significant first, as  *)
(* the 8-bit AVR stores and moves it.                                      *)

W8  == 2^8
W16 == 2^16

\* the uint32_t with value n, for 0 <= n < 2^31
U32(n) == <<n % W8, (n \div W8) % W8, (n \div W16) % W8, (n \div (W8 * W16)) % W8>>

\* a + b, a << 8 and a * k (k a small constant) on uint32_t, each truncated
\* to 32 bits as avr-gcc computes them
Add32(a, b) ==
  LET s1 == a[1] + b[1]
      s2 == a[2] + b[2] + s1 \div W8
      s3 == a[3] + b[3] + s2 \div W8
      s4 == a[4] + b[4] + s3 \div W8
  IN  <<s1 % W8, s2 % W8, s3 % W8, s4 % W8>>
Shl8(a) == <<0, a[1], a[2], a[3]>>
Mul32(a, k) ==
  LET p1 == a[1] * k
      p2 == a[2] * k + p1 \div W8
      p3 == a[3] * k + p2 \div W8
      p4 == a[4] * k + p3 \div W8
  IN  <<p1 % W8, p2 % W8, p3 % W8, p4 % W8>>

-----------------------------------------------------------------------------
(* Build configuration *)

\* the frequencies micros() has a branch for
Freqs == {20000000, 16000000, 12000000, 9600000, 8000000, 4800000,
          1200000, 1000000, 600000, 128000}

\* the multipliers had 6.666 been truncated instead of rounded
MultiplierTrunc(f) ==
  CASE f = 20000000 -> 3
    [] f = 16000000 -> 4
    [] f = 12000000 -> 5
    [] f = 9600000  -> 6
    [] f = 8000000  -> 8
    [] f = 4800000  -> 13
    [] f = 1200000  -> 6
    [] f = 1000000  -> 8
    [] f = 600000   -> 13
    [] f = 128000   -> 62

\* the constant each #if branch of micros() multiplies by
Multiplier(f) ==
  CASE f = 20000000 -> 3
    [] f = 16000000 -> 4
    [] f = 12000000 -> 5
    [] f = 9600000  -> 7
    [] f = 8000000  -> 8
    [] f = 4800000  -> 13
    [] f = 1200000  -> 7
    [] f = 1000000  -> 8
    [] f = 600000   -> 13
    [] f = 128000   -> 62

\* the conversion without its parentheses: (x << 8) + t * K
MicrosNoParen(f, xx, tt) == Add32(Shl8(xx), Mul32(U32(tt), Multiplier(f)))

\* return ((x << 8) + t) * K;
Micros(f, xx, tt) == Mul32(Add32(Shl8(xx), U32(tt)), Multiplier(f))

\* init() had it selected F_CPU/64 for every frequency
PrescalerAll64(f) == {"CS00", "CS01"}

\* the division of the CPU clock a value of TCCR0B selects: F_CPU/64,
\* F_CPU/8, or 0 while the timer is stopped
Divisor(cs) ==
  CASE cs = {"CS00", "CS01"} -> 64
    [] cs = {"CS01"}         -> 8
    [] OTHER                 -> 0

\* the prescaler bits init() writes to TCCR0B
Prescaler(f) == IF f >= 4800000 THEN {"CS00", "CS01"} ELSE {"CS01"}

-----------------------------------------------------------------------------
(* Hardware *)

\* the timer0 overflow interrupt is taken before the next mainline statement
IrqReady == "I" \in SREG /\ "TOIE0" \in TIMSK0 /\ "TOV0" \in TIFR0

\* timer0 counts d ticks; it runs once a clock source is selected.  Between
\* two statements of micros(), init() or delay()'s loop test there is time
\* for one tick at most per step.  An interrupt that is ready is taken
\* within a few CPU cycles, before the timer's next tick.
Tick(d) ==
  /\ TCCR0B # {}
  /\ ~IrqReady
  /\ d = 1 \/ pc \in {"main", "d_body"}
  /\ tickEvents < MaxTickEvents
  /\ TCNT0' = (TCNT0 + d) % W8
  /\ TIFR0' = IF TCNT0 + d >= W8 THEN TIFR0 \cup {"TOV0"} ELSE TIFR0
  /\ trueOvf' = IF TCNT0 + d >= W8 THEN Add32(trueOvf, U32(1)) ELSE trueOvf
  /\ tickEvents' = tickEvents + 1
  /\ raced' = (raced \/ (TCNT0 + d >= W8 /\ pc \in {"m_cli", "m_rd0"}))
  /\ sinceInit' = "none"
  /\ UNCHANGED <<config, SREG, TCCR0B, TIMSK0, mem, pc, locals, hist, ctx,
                 pair, entrySREG, callOvf, callT, callOk, rdLo, obsDelay,
                 obsMillis, wdtEvents, inits>>

\* the handler had it incremented the low byte of the tally only
TIM0_OVF_vect_lowbyte ==
  /\ IrqReady
  /\ timer0_overflow' = [timer0_overflow EXCEPT ![1] = (@ + 1) % W8]
  /\ TIFR0' = TIFR0 \ {"TOV0"}
  /\ ovfInDelay' = (ovfInDelay \/ pc \in {"d_test", "d_body"})
  /\ UNCHANGED <<config, SREG, TCCR0B, TIMSK0, TCNT0, wdt_counter, pc, locals,
                 obsMicros, msArg, loops, entryTally, obsMillis, obsTime, sinceInit,
                 inits>>

\* ISR(TIM0_OVF_vect) { timer0_overflow++; }  The hardware clears TOV0 and I
\* on entry and reti sets I again, so the handler is one step of the model.
TIM0_OVF_vect ==
  /\ IrqReady
  /\ timer0_overflow' = Add32(timer0_overflow, U32(1))
  /\ TIFR0' = TIFR0 \ {"TOV0"}
  /\ ovfInDelay' = (ovfInDelay \/ pc \in {"d_test", "d_body"})
  /\ UNCHANGED <<config, SREG, TCCR0B, TIMSK0, TCNT0, wdt_counter, pc, locals,
                 obsMicros, msArg, loops, entryTally, obsMillis, obsTime, sinceInit,
                 inits>>

\* the mainline executes its next statement
Runs(at) == pc = at /\ ~IrqReady

-----------------------------------------------------------------------------
(* micros() *)

MicrosPcs == {"m_save", "m_tcnt", "m_cli", "m_rd0", "m_rd1", "m_rd2",
              "m_rd3", "m_restore", "m_ret"}

MicrosCall ==
  /\ Runs("main")
  /\ ENABLE_MICROS
  /\ pc' = "m_save"
  /\ entrySREG' = SREG
  /\ callOvf' = trueOvf
  /\ callT' = TCNT0
  /\ callOk' = (inits = 1 /\ "TOV0" \notin TIFR0 /\ timer0_overflow = trueOvf)
  /\ raced' = FALSE
  /\ sinceInit' = IF sinceInit = "init" THEN "init" ELSE "none"
  /\ UNCHANGED <<config, hw, mem, locals, hist, ctx, pair, rdLo, obsDelay,
                 obsMillis, obsTime, inits>>

\* uint8_t oldSREG = SREG;
MicrosSave ==
  /\ Runs("m_save")
  /\ oldSREG' = SREG
  /\ pc' = "m_tcnt"
  /\ UNCHANGED <<config, hw, mem, t, x, ms, m, obsMicros, obsDelay, obsMillis,
                 obsTime, sinceInit, inits>>

\* micros() had it restarted the count after reading it
MicrosReadClearTCNT0 ==
  /\ Runs("m_tcnt")
  /\ t' = TCNT0
  /\ TCNT0' = 0
  /\ pc' = "m_cli"
  /\ UNCHANGED <<config, SREG, TCCR0B, TIMSK0, TIFR0, mem, oldSREG, x, ms, m,
                 obsMicros, obsDelay, obsMillis, obsTime, sinceInit, inits>>

\* t = TCNT0;
MicrosReadTCNT0 ==
  /\ Runs("m_tcnt")
  /\ t' = TCNT0
  /\ pc' = "m_cli"
  /\ UNCHANGED <<config, hw, mem, oldSREG, x, ms, m, obsMicros, obsDelay,
                 obsMillis, obsTime, sinceInit, inits>>

\* micros() had it no cli()
MicrosNoCli ==
  /\ Runs("m_cli")
  /\ pc' = "m_rd0"
  /\ UNCHANGED <<config, hw, mem, locals, obsMicros, obsDelay, obsMillis,
                 obsTime, sinceInit, inits>>

\* cli();
MicrosCli ==
  /\ Runs("m_cli")
  /\ SREG' = SREG \ {"I"}
  /\ pc' = "m_rd0"
  /\ UNCHANGED <<config, TCCR0B, TIMSK0, TIFR0, TCNT0, mem, locals, obsMicros,
                 obsDelay, obsMillis, obsTime, sinceInit, inits>>

\* x = timer0_overflow;  four byte loads
MicrosReadByte(i) ==
  /\ Runs(<<"m_rd0", "m_rd1", "m_rd2", "m_rd3">>[i + 1])
  /\ x' = [x EXCEPT ![i + 1] = timer0_overflow[i + 1]]
  /\ rdLo' = IF i = 0 THEN timer0_overflow ELSE rdLo
  /\ pc' = <<"m_rd1", "m_rd2", "m_rd3", "m_restore">>[i + 1]
  /\ UNCHANGED <<config, hw, mem, oldSREG, t, ms, m, hist, ctx, pair,
                 entrySREG, callOvf, callT, callOk, raced, obsDelay, obsMillis,
                 obsTime, sinceInit, inits>>

\* micros() had it ended its critical section with sei()
MicrosRestoreSei ==
  /\ Runs("m_restore")
  /\ SREG' = SREG \cup {"I"}
  /\ pc' = "m_ret"
  /\ UNCHANGED <<config, TCCR0B, TIMSK0, TIFR0, TCNT0, mem, locals, obsMicros,
                 obsDelay, obsMillis, obsTime, sinceInit, inits>>

\* SREG = oldSREG;
MicrosRestore ==
  /\ Runs("m_restore")
  /\ SREG' = oldSREG
  /\ pc' = "m_ret"
  /\ UNCHANGED <<config, TCCR0B, TIMSK0, TIFR0, TCNT0, mem, locals, obsMicros,
                 obsDelay, obsMillis, obsTime, sinceInit, inits>>

\* the context a call was entered in
EntryCtx == IF "I" \in entrySREG THEN "en" ELSE "dis"

\* the last two results, each with the snapshot it was computed from
Push(h, r) == IF Len(h) = 2 THEN <<h[2], r>> ELSE Append(h, r)

\* return ((x << 8) + t) * K;
MicrosReturn ==
  /\ Runs("m_ret")
  /\ hist' = Push(hist, [ret |-> Micros(F_CPU, x, t), x |-> x, t |-> t])
  /\ pair' = IF hist # <<>> /\ ctx = EntryCtx THEN EntryCtx ELSE "none"
  /\ ctx' = EntryCtx
  /\ sinceInit' = IF sinceInit = "init" THEN "micros" ELSE "none"
  \* the locals die with the call
  /\ oldSREG' = {} /\ t' = 0 /\ x' = U32(0)
  /\ entrySREG' = {} /\ callOvf' = U32(0) /\ callT' = 0 /\ callOk' = FALSE
  /\ raced' = FALSE /\ rdLo' = U32(0)
  /\ pc' = "main"
  /\ UNCHANGED <<config, hw, mem, ms, m, obsDelay, obsMillis, obsTime, inits>>

micros ==
  \/ MicrosCall
  \/ MicrosSave
  \/ MicrosReadTCNT0
  \/ MicrosCli
  \/ \E i \in 0..3 : MicrosReadByte(i)
  \/ MicrosRestore
  \/ MicrosReturn

-----------------------------------------------------------------------------
(* delay() *)

DelayCall(n) ==
  /\ Runs("main")
  /\ ms' = n
  /\ msArg' = n
  /\ loops' = 0
  /\ ovfInDelay' = FALSE
  /\ pc' = "d_test"
  /\ sinceInit' = "none"
  /\ entrySREG' = SREG
  /\ callOvf' = trueOvf
  /\ entryTally' = timer0_overflow
  /\ UNCHANGED <<config, hw, mem, oldSREG, t, x, m, hist, ctx, pair, callT,
                 callOk, raced, rdLo, obsMillis, obsTime, inits>>

\* the loop had it been written while(--ms)
DelayTestPre ==
  /\ Runs("d_test")
  /\ ms' = (ms - 1) % W16
  /\ pc' = IF (ms - 1) % W16 # 0 THEN "d_body" ELSE "main"
  \* what was recorded at the call is dropped at the return
  /\ entrySREG' = IF (ms - 1) % W16 # 0 THEN entrySREG ELSE {}
  /\ callOvf' = IF (ms - 1) % W16 # 0 THEN callOvf ELSE U32(0)
  /\ entryTally' = IF (ms - 1) % W16 # 0 THEN entryTally ELSE U32(0)
  /\ UNCHANGED <<config, hw, mem, oldSREG, t, x, m, hist, ctx, pair, callT,
                 callOk, raced, rdLo, msArg, loops, ovfInDelay, obsMillis,
                 obsTime, sinceInit, inits>>

\* while(ms--)
DelayTest ==
  /\ Runs("d_test")
  /\ ms' = (ms - 1) % W16
  /\ pc' = IF ms # 0 THEN "d_body" ELSE "main"
  \* what was recorded at the call is dropped at the return
  /\ entrySREG' = IF ms # 0 THEN entrySREG ELSE {}
  /\ callOvf' = IF ms # 0 THEN callOvf ELSE U32(0)
  /\ entryTally' = IF ms # 0 THEN entryTally ELSE U32(0)
  /\ UNCHANGED <<config, hw, mem, oldSREG, t, x, m, hist, ctx, pair, callT,
                 callOk, raced, rdLo, msArg, loops, ovfInDelay, obsMillis,
                 obsTime, sinceInit, inits>>

DelayPcs == {"d_test", "d_body"}

\* the busy wait had it run with interrupts disabled and ended with sei()
DelayBodyAtomic ==
  /\ Runs("d_body")
  /\ SREG' = SREG \cup {"I"}
  /\ loops' = loops + 1
  /\ pc' = "d_test"
  /\ UNCHANGED <<config, TCCR0B, TIMSK0, TIFR0, TCNT0, mem, locals, obsMicros,
                 msArg, ovfInDelay, entryTally, obsMillis, obsTime, sinceInit,
                 inits>>

\* _delay_ms(1);
DelayBody ==
  /\ Runs("d_body")
  /\ loops' = loops + 1
  /\ pc' = "d_test"
  /\ UNCHANGED <<config, hw, mem, locals, obsMicros, msArg, ovfInDelay,
                 entryTally, obsMillis, obsTime, sinceInit, inits>>

delay ==
  \/ \E n \in 0..MaxDelay : DelayCall(n)
  \/ DelayTest
  \/ DelayBody

-----------------------------------------------------------------------------
(* init() *)

InitCall ==
  /\ Runs("main")
  /\ pc' = IF ENABLE_MICROS THEN "i_presc" ELSE "i_sei"
  \* results are compared between two calls of init() only
  /\ hist' = <<>>
  /\ ctx' = "none"
  /\ pair' = "none"
  /\ sinceInit' = "none"
  /\ entrySREG' = SREG
  /\ UNCHANGED <<config, hw, mem, locals, callOvf, callT, callOk, raced, rdLo,
                 obsDelay, obsMillis, obsTime, inits>>

InitPcs == {"i_presc", "i_timsk", "i_tcnt", "i_sei"}

\* init() had it called sei() first
InitPrescalerSei ==
  /\ Runs("i_presc")
  /\ SREG' = SREG \cup {"I"}
  /\ TCCR0B' = Prescaler(F_CPU)
  /\ pc' = "i_timsk"
  /\ UNCHANGED <<config, TIMSK0, TIFR0, TCNT0, mem, locals, obsMicros,
                 obsDelay, obsMillis, obsTime, sinceInit, inits>>

\* TCCR0B = _BV(CS00) | _BV(CS01);   or   TCCR0B = _BV(CS01);
InitPrescaler ==
  /\ Runs("i_presc")
  /\ TCCR0B' = Prescaler(F_CPU)
  /\ pc' = "i_timsk"
  /\ UNCHANGED <<config, SREG, TIMSK0, TIFR0, TCNT0, mem, locals, obsMicros,
                 obsDelay, obsMillis, obsTime, sinceInit, inits>>

\* TIMSK0 = _BV(TOIE0);
InitTimsk ==
  /\ Runs("i_timsk")
  /\ TIMSK0' = {"TOIE0"}
  /\ pc' = "i_tcnt"
  /\ UNCHANGED <<config, SREG, TCCR0B, TIFR0, TCNT0, mem, locals, obsMicros,
                 obsDelay, obsMillis, obsTime, sinceInit, inits>>

\* init() had it zeroed the overflow tally together with the count
InitTcntTally ==
  /\ Runs("i_tcnt")
  /\ TCNT0' = 0
  /\ timer0_overflow' = U32(0)
  /\ pc' = "i_sei"
  /\ sinceInit' = "zeroed"
  /\ UNCHANGED <<config, SREG, TCCR0B, TIMSK0, TIFR0, wdt_counter, locals,
                 obsMicros, obsDelay, obsMillis, obsTime, inits>>

\* TCNT0 = 0;
InitTcnt ==
  /\ Runs("i_tcnt")
  /\ TCNT0' = 0
  /\ pc' = "i_sei"
  /\ sinceInit' = "zeroed"
  /\ UNCHANGED <<config, SREG, TCCR0B, TIMSK0, TIFR0, mem, locals, obsMicros,
                 obsDelay, obsMillis, obsTime, inits>>

\* sei();
InitSei ==
  /\ Runs("i_sei")
  /\ SREG' = SREG \cup {"I"}
  /\ pc' = "main"
  /\ sinceInit' = IF ENABLE_MICROS /\ sinceInit # "zeroed" THEN "none" ELSE "init"
  /\ inits' = IF inits < 2 THEN inits + 1 ELSE inits
  /\ entrySREG' = {}
  /\ UNCHANGED <<config, TCCR0B, TIMSK0, TIFR0, TCNT0, mem, locals, hist, ctx,
                 pair, callOvf, callT, callOk, raced, rdLo, obsDelay, obsMillis,
                 obsTime>>

init ==
  \/ InitCall
  \/ InitPrescaler
  \/ InitTimsk
  \/ InitTcnt
  \/ InitSei

-----------------------------------------------------------------------------
(* millis() *)
(* _millis is an assembly routine of the core that is not part of          *)
(* wiring.c.  It is modelled from the design: a snapshot of the 32-bit     *)
(* counter taken with interrupts disabled, the interrupt-enable state      *)
(* restored afterwards.  The counter is advanced by the watchdog           *)
(* interrupt, WdtStep milliseconds at a time.                              *)

\* "If 16 ms accuracy is enough ... use millis()"
WdtStep == 16

WDT_vect ==
  /\ "I" \in SREG
  /\ wdtEvents < MaxWdtEvents
  /\ wdt_counter' = Add32(wdt_counter, U32(WdtStep))
  /\ wdtEvents' = wdtEvents + 1
  /\ UNCHANGED <<config, hw, timer0_overflow, pc, locals, obsMicros, obsDelay,
                 obsMillis, trueOvf, tickEvents, sinceInit, inits>>

\* uint32_t millis() { ... asm volatile ("rcall _millis" ...
MillisCall ==
  /\ Runs("main")
  /\ pc' = "ms_save"
  /\ mLo' = wdt_counter
  /\ sinceInit' = "none"
  /\ UNCHANGED <<config, hw, mem, locals, obsMicros, obsDelay, mret, obsTime,
                 inits>>

AsmSave ==
  /\ Runs("ms_save")
  /\ oldSREG' = SREG
  /\ pc' = "ms_cli"
  /\ UNCHANGED <<config, hw, mem, t, x, ms, m, obsMicros, obsDelay, obsMillis,
                 obsTime, sinceInit, inits>>

\* the snapshot had it been taken without disabling interrupts
AsmNoCli ==
  /\ Runs("ms_cli")
  /\ pc' = "ms_rd0"
  /\ UNCHANGED <<config, hw, mem, locals, obsMicros, obsDelay, obsMillis,
                 obsTime, sinceInit, inits>>

AsmCli ==
  /\ Runs("ms_cli")
  /\ SREG' = SREG \ {"I"}
  /\ pc' = "ms_rd0"
  /\ UNCHANGED <<config, TCCR0B, TIMSK0, TIFR0, TCNT0, mem, locals, obsMicros,
                 obsDelay, obsMillis, obsTime, sinceInit, inits>>

AsmReadByte(i) ==
  /\ Runs(<<"ms_rd0", "ms_rd1", "ms_rd2", "ms_rd3">>[i + 1])
  /\ m' = [m EXCEPT ![i + 1] = wdt_counter[i + 1]]
  /\ pc' = <<"ms_rd1", "ms_rd2", "ms_rd3", "ms_restore">>[i + 1]
  /\ UNCHANGED <<config, hw, mem, oldSREG, t, x, ms, obsMicros, obsDelay,
                 obsMillis, obsTime, sinceInit, inits>>

AsmRestore ==
  /\ Runs("ms_restore")
  /\ SREG' = oldSREG
  /\ pc' = "ms_ret"
  /\ UNCHANGED <<config, TCCR0B, TIMSK0, TIFR0, TCNT0, mem, locals, obsMicros,
                 obsDelay, obsMillis, obsTime, sinceInit, inits>>

\* ... : "=w" (m) :: "r30");  return m; }
MillisReturn ==
  /\ Runs("ms_ret")
  /\ mret' = <<m>>
  /\ oldSREG' = {} /\ m' = U32(0) /\ mLo' = U32(0)
  /\ pc' = "main"
  /\ UNCHANGED <<config, hw, mem, t, x, ms, obsMicros, obsDelay, obsTime,
                 sinceInit, inits>>

millis ==
  \/ MillisCall
  \/ AsmSave
  \/ AsmCli
  \/ \E i \in 0..3 : AsmReadByte(i)
  \/ AsmRestore
  \/ MillisReturn

-----------------------------------------------------------------------------
(* The sketch around wiring.c: it may disable and enable interrupts *)

\* cli();
CallerCli ==
  /\ Runs("main")
  /\ "I" \in SREG
  /\ SREG' = SREG \ {"I"}
  /\ ctx' = IF ctx = "en" THEN "none" ELSE ctx
  /\ sinceInit' = "none"
  /\ UNCHANGED <<config, TCCR0B, TIMSK0, TIFR0, TCNT0, mem, pc, locals, hist,
                 pair, entrySREG, callOvf, callT, callOk, raced, rdLo, obsDelay,
                 obsMillis, obsTime, inits>>

\* sei();  The sketch runs after init(), which is called first.
CallerSei ==
  /\ Runs("main")
  /\ "I" \notin SREG
  /\ inits > 0
  /\ SREG' = SREG \cup {"I"}
  /\ ctx' = IF ctx = "dis" THEN "none" ELSE ctx
  /\ sinceInit' = "none"
  /\ UNCHANGED <<config, TCCR0B, TIMSK0, TIFR0, TCNT0, mem, pc, locals, hist,
                 pair, entrySREG, callOvf, callT, callOk, raced, rdLo, obsDelay,
                 obsMillis, obsTime, inits>>

-----------------------------------------------------------------------------
(* The program from power-on, built with ENABLE_MICROS *)

\* the mainline is in the sketch and nothing has been observed yet
Idle ==
  /\ pc = "main"
  /\ oldSREG = {} /\ t = 0 /\ x = U32(0) /\ ms = 0 /\ m = U32(0)
  /\ hist = <<>> /\ mret = <<>> /\ ctx = "none" /\ pair = "none"
  /\ sinceInit = "none" /\ entrySREG = {}
  /\ tickEvents = 0 /\ callOvf = U32(0) /\ callT = 0 /\ callOk = FALSE
  /\ raced = FALSE /\ rdLo = U32(0)
  /\ msArg = 0 /\ loops = 0 /\ ovfInDelay = FALSE /\ entryTally = U32(0)
  /\ wdtEvents = 0 /\ mLo = U32(0)

\* registers and static storage after reset
PowerOn ==
  /\ SREG = {} /\ TCCR0B = {} /\ TIMSK0 = {} /\ TIFR0 = {} /\ TCNT0 = 0
  /\ timer0_overflow = U32(0) /\ wdt_counter = U32(0)
  /\ trueOvf = U32(0) /\ inits = 0

Init ==
  /\ F_CPU \in Freqs
  /\ ENABLE_MICROS = TRUE
  /\ PowerOn
  /\ Idle

Next ==
  \/ \E d \in TickSteps : Tick(d)
  \/ TIM0_OVF_vect
  \/ micros
  \/ init
  \/ CallerCli
  \/ CallerSei

Spec == Init /\ [][Next]_vars

-----------------------------------------------------------------------------
(* delay() called by a sketch while timer0 and its interrupt are running *)

NextDelay ==
  \/ \E d \in TickSteps : Tick(d)
  \/ TIM0_OVF_vect
  \/ delay
  \/ init
  \/ CallerCli
  \/ CallerSei

\* the CPU never stops: the mainline executes its next statement unless an
\* interrupt is taken, and a pending enabled interrupt is taken
SpecDelay ==
  /\ Init
  /\ [][NextDelay]_vars
  /\ WF_vars(DelayTest \/ DelayBody)
  /\ WF_vars(TIM0_OVF_vect)

-----------------------------------------------------------------------------
(* The program some time after init(): micros() called while timer0 runs   *)

\* values of the overflow tally and of TCNT0 the program is found with
TallySamples == {<<0, 0, 0, 0>>, <<3, 0, 0, 0>>, <<255, 0, 0, 0>>,
                 <<255, 255, 63, 0>>, <<255, 255, 255, 0>>,
                 <<255, 255, 255, 255>>}
CountSamples == {232, 255}

InitRun ==
  /\ F_CPU \in Freqs
  /\ ENABLE_MICROS = TRUE
  /\ SREG = {"I"} /\ TCCR0B = Prescaler(F_CPU) /\ TIMSK0 = {"TOIE0"}
  /\ TIFR0 = {}
  /\ TCNT0 \in CountSamples
  /\ timer0_overflow \in TallySamples
  /\ trueOvf = timer0_overflow
  /\ wdt_counter = U32(0)
  /\ inits = 1
  /\ Idle

NextRun ==
  \/ \E d \in TickSteps : Tick(d)
  \/ TIM0_OVF_vect
  \/ micros

SpecRun == InitRun /\ [][NextRun]_vars

-----------------------------------------------------------------------------
(* millis() in the default build, without ENABLE_MICROS *)

InitMillis ==
  /\ F_CPU \in Freqs
  /\ ENABLE_MICROS = FALSE
  /\ PowerOn
  /\ Idle

NextMillis ==
  \/ WDT_vect
  \/ millis
  \/ InitCall
  \/ InitSei
  \/ CallerCli
  \/ CallerSei

SpecMillis == InitMillis /\ [][NextMillis]_vars

-----------------------------------------------------------------------------
(* Both builds from power-on: with ENABLE_MICROS and without *)

InitBuilds ==
  /\ F_CPU \in Freqs
  /\ ENABLE_MICROS \in BOOLEAN
  /\ PowerOn
  /\ Idle

SpecBuilds == InitBuilds /\ [][Next]_vars

-----------------------------------------------------------------------------
(* Properties *)

\* a - b (mod 2^32), a < b and a <= b on uint32_t
Sub32(a, b) ==
  LET d1 == a[1] - b[1]
      d2 == a[2] - b[2] + d1 \div W8
      d3 == a[3] - b[3] + d2 \div W8
      d4 == a[4] - b[4] + d3 \div W8
  IN  <<d1 % W8, d2 % W8, d3 % W8, d4 % W8>>
Lt32(a, b) ==
  \/ a[4] < b[4]
  \/ a[4] = b[4] /\ a[3] < b[3]
  \/ a[4] = b[4] /\ a[3] = b[3] /\ a[2] < b[2]
  \/ a[4] = b[4] /\ a[3] = b[3] /\ a[2] = b[2] /\ a[1] < b[1]
Le32(a, b) == a = b \/ Lt32(a, b)

\* 16-bit halves of a uint32_t
Lo16(v) == v[1] + W8 * v[2]
Hi16(v) == v[3] + W8 * v[4]

\* the multiplier table as documented
KTable(f) ==
  CASE f = 20000000 -> 3  [] f = 16000000 -> 4  [] f = 12000000 -> 5
    [] f = 9600000  -> 7  [] f = 8000000  -> 8  [] f = 4800000  -> 13
    [] f = 1200000  -> 7  [] f = 1000000  -> 8  [] f = 600000   -> 13
    [] f = 128000   -> 62

\* a result far from the 32-bit wraparound: its tally is below 2^16
Unwrapped(h) == h.x[3] = 0 /\ h.x[4] = 0

\* C1: two successive complete calls of micros() from a mainline that keeps
\* interrupts enabled, with no init() in between, return v1 then v2 with
\* v2 >= v1 (the results being far from the 32-bit wraparound).
C1_MonotonicEnabled ==
  (pair = "en" /\ Unwrapped(hist[1]) /\ Unwrapped(hist[2]))
    => Le32(hist[1].ret, hist[2].ret)

\* C2: when timer0 overflows between micros() reading TCNT0 and reading the
\* tally, the tick total (x << 8) + t does not exceed the true number of
\* ticks when micros() returns, and is at most 256 ticks behind the true
\* number of ticks at call time.
C2_NoDoubleCount ==
  (pc = "m_ret" /\ raced /\ callOk)
    => /\ (Lt32(x, trueOvf) \/ (x = trueOvf /\ t <= TCNT0))
       /\ (Le32(callOvf, x) \/ (callOvf = Add32(x, U32(1)) /\ callT <= t))

\* C3: two successive calls of micros() made while the caller holds
\* interrupts disabled across both return non-decreasing values, whatever
\* number of ticks elapses between them.
C3_MonotonicDisabled ==
  (pair = "dis" /\ Unwrapped(hist[1]) /\ Unwrapped(hist[2]))
    => Le32(hist[1].ret, hist[2].ret)

\* C4: micros() returns with the I flag equal to its value on entry; when it
\* was clear on entry it stays clear during the whole call.
C4_SregPreserved ==
  /\ []((pc \in MicrosPcs /\ "I" \notin entrySREG) => "I" \notin SREG)
  /\ [](pc = "m_ret" => SREG = entrySREG)
  /\ [][(pc = "m_ret" /\ pc' = "main") => SREG' = entrySREG]_vars

\* micros() has restored SREG after a call entered with interrupts disabled
C4_Witness == pc = "m_ret" /\ "I" \notin entrySREG /\ hist # <<>>

\* C5: every init() followed immediately by micros(), no tick elapsing in
\* between, makes micros() return 0.
C5_InitThenMicrosZero ==
  sinceInit = "micros" => hist[Len(hist)].ret = U32(0)

\* C6: micros() returns ((tally << 8) + live_count) * K truncated to 32 bits,
\* K the documented multiplier of the frequency; at 16 MHz, 1000 ticks
\* give 4000.
C6_Conversion ==
  \A i \in 1..Len(hist) :
    LET h   == hist[i]
        k   == KTable(F_CPU)
        lo  == h.t + W8 * h.x[1]
        hi  == h.x[2] + W8 * h.x[3]
        plo == lo * k
        phi == hi * k + plo \div W16
    IN  /\ Lo16(h.ret) = plo % W16
        /\ Hi16(h.ret) = phi % W16
        /\ (F_CPU = 16000000 /\ hi = 0 /\ lo = 1000) => h.ret = U32(4000)

\* 1000 ticks were converted at 16 MHz
C6_Witness ==
  /\ F_CPU = 16000000
  /\ hist # <<>>
  /\ hist[1].x = U32(3) /\ hist[1].t = 232 /\ hist[1].ret = U32(4000)

\* the ticks between the snapshots of the last two results, when the later
\* one is at most 2^22 ticks ahead (-1 otherwise)
TicksApart ==
  LET dx == Sub32(hist[2].x, hist[1].x)
      d  == Lo16(dx) * W8 + hist[2].t - hist[1].t
  IN  IF dx[3] = 0 /\ dx[4] = 0 /\ dx[2] < 64 /\ d >= 0 THEN d ELSE 0 - 1

\* C7: for two results taken d ticks apart, (later - earlier) mod 2^32 is
\* d * K, also across a wrap of the result, of the shifted tally or of the
\* multiplication.
C7_Difference ==
  (Len(hist) = 2 /\ TicksApart >= 0)
    => Sub32(hist[2].ret, hist[1].ret) = U32(TicksApart * KTable(F_CPU))

\* the result wrapped around 2^32 between two reads some ticks apart
C7_Witness ==
  /\ Len(hist) = 2
  /\ TicksApart > 0
  /\ Lt32(hist[2].ret, hist[1].ret)

\* C8: delay(ms) runs _delay_ms(1) exactly ms times and then returns, zero
\* times for delay(0); it terminates also while overflow interrupts fire.
C8_DelayLoops ==
  /\ [][(pc = "d_test" /\ pc' = "main") => loops = msArg]_vars
  /\ [](pc = "d_test" => loops + ms = msArg)
  /\ ((pc \in {"d_test", "d_body"}) ~> (pc = "main"))

\* delay(MaxDelay) has returned after an overflow interrupt was serviced
\* while it was running
C8_Witness ==
  /\ pc = "main"
  /\ msArg = MaxDelay /\ loops = MaxDelay /\ ms = W16 - 1
  /\ ovfInDelay

\* C9: millis() returns a value the counter held at some instant between the
\* call and the return, never a mix of bytes from before and after an
\* increment.
C9_MillisNotTorn ==
  pc = "ms_ret"
    => /\ Le32(mLo, m)
       /\ Le32(m, wdt_counter)
       /\ Lo16(Sub32(m, mLo)) % WdtStep = 0

\* the counter was carried into its second byte during a call of millis()
C9_Witness ==
  /\ pc = "ms_ret"
  /\ Lt32(mLo, m)
  /\ m = U32(W8)

\* C10: all bytes of the tally are read with interrupts disabled, the
\* handler does not run between two byte reads, and the snapshot x is the
\* value the tally held at one instant.
C10_TallyNotTorn ==
  /\ pc \in {"m_rd0", "m_rd1", "m_rd2", "m_rd3"} => "I" \notin SREG
  /\ pc \in {"m_rd1", "m_rd2", "m_rd3", "m_restore"} => timer0_overflow = rdLo
  /\ pc \in {"m_restore", "m_ret"} => x = rdLo

\* an overflow is pending, its handler blocked, while the tally is read just
\* before its low byte carries
C10_Witness ==
  /\ pc = "m_restore"
  /\ "I" \in entrySREG
  /\ "TOV0" \in TIFR0
  /\ x = U32(W8 - 1)

\* one if the overflow flag is set, the event not yet added to the tally
Pending == IF "TOV0" \in TIFR0 THEN 1 ELSE 0

\* C11: each run of the overflow handler adds exactly one to the tally
\* (mod 2^32) and changes nothing else of the program; while the mainline
\* disables interrupts inside micros() only, the tally plus one for a
\* pending overflow equals the number of hardware overflows so far.
C11_NoOverflowLost ==
  /\ [](Add32(timer0_overflow, U32(Pending)) = trueOvf)
  /\ [][(timer0_overflow' # timer0_overflow \/ Pending' < Pending)
          => /\ timer0_overflow' = Add32(timer0_overflow, U32(1))
             /\ Pending = 1 /\ Pending' = 0
             /\ UNCHANGED <<SREG, TCCR0B, TIMSK0, TCNT0, wdt_counter, pc,
                            locals>>]_vars

\* the handler ran while micros() was between two statements and carried
\* the tally from 2^32 - 1 to 0
C11_Witness ==
  /\ pc \in MicrosPcs
  /\ timer0_overflow = U32(0) /\ trueOvf = U32(0)
  /\ TCNT0 < 232

Abs(n) == IF n < 0 THEN 0 - n ELSE n

\* C13: for every frequency of the table, the multiplier micros() uses is
\* an integer nearest to prescaler / (frequency in MHz), the prescaler being
\* the division init() has selected: 64 from 4.8 MHz up, 8 below.  (K is
\* nearest to P * 1000 / kHz exactly when 2 * |K * kHz - P * 1000| <= kHz.)
C13_NearestMultiplier ==
  (pc = "m_ret" /\ inits > 0)
    => LET kHz == F_CPU \div 1000
           P   == Divisor(TCCR0B)
           K   == Multiplier(F_CPU)
       IN  /\ P = IF F_CPU >= 4800000 THEN 64 ELSE 8
           /\ Micros(F_CPU, x, t) = Mul32(Add32(Shl8(x), U32(t)), K)
           /\ 2 * Abs(K * kHz - P * 1000) <= kHz

\* micros() returns at 128 kHz, where a tick is 62.5 us
C13_Witness ==
  /\ pc = "m_ret" /\ inits > 0
  /\ F_CPU = 128000
  /\ TCCR0B = {"CS01"}

\* C14: delay() writes neither the overflow tally nor a register of timer0
\* nor the I flag, which on return equals its value on entry.  Entered with
\* interrupts enabled, the handler keeps being serviced: at every moment of
\* the delay, and at its return, the tally has advanced by one per overflow
\* that occurred since the call (but the one still pending).
C14_DelayFrame ==
  /\ [][((pc \in DelayPcs \/ pc' \in DelayPcs) /\ pc' # pc)
          => UNCHANGED <<SREG, TCCR0B, TIMSK0, TIFR0, TCNT0,
                         timer0_overflow>>]_vars
  /\ [](pc \in DelayPcs => SREG = entrySREG)
  /\ [][(pc = "d_test" /\ pc' = "main") => SREG' = entrySREG]_vars
  /\ []((pc \in DelayPcs /\ "I" \in entrySREG)
          => Add32(Sub32(timer0_overflow, entryTally), U32(Pending))
               = Sub32(trueOvf, callOvf))
  /\ [][(pc = "d_test" /\ pc' = "main" /\ "I" \in entrySREG)
          => Sub32(timer0_overflow', entryTally) = Sub32(trueOvf', callOvf)]_vars

\* delay() is about to return; timer0 overflowed twice while it ran and
\* the handler has run twice
C14_Witness ==
  /\ pc = "d_test" /\ ms = 0
  /\ "I" \in entrySREG
  /\ Sub32(timer0_overflow, entryTally) = U32(2)
  /\ Sub32(trueOvf, callOvf) = U32(2)

\* C15: no statement of micros() writes the overflow tally, the count
\* register or another register of timer0, or the millisecond counter, and
\* SREG is put back at the return; the result depends on the snapshot
\* (tally, count) only: two calls that took the same snapshot returned the
\* same value, however many calls came before.
C15_MicrosFrame ==
  /\ [][((pc \in MicrosPcs \/ pc' \in MicrosPcs) /\ pc' # pc)
          => UNCHANGED <<timer0_overflow, wdt_counter, TCNT0, TCCR0B, TIMSK0,
                         TIFR0>>]_vars
  /\ [][(pc \in MicrosPcs /\ pc' = "main") => SREG' = entrySREG]_vars
  /\ [](\A i, j \in 1..Len(hist) :
          (hist[i].x = hist[j].x /\ hist[i].t = hist[j].t)
            => hist[i].ret = hist[j].ret)

\* two successive calls took the same snapshot, while timer0 was running
\* and the tally was not zero
C15_Witness ==
  /\ Len(hist) = 2
  /\ hist[1].x = hist[2].x /\ hist[1].t = hist[2].t
  /\ hist[1].x = U32(3)
  /\ TCCR0B # {}

\* C16: init() called again zeroes the count register, writes the overflow
\* tally in none of its steps, and returns with interrupts enabled.  Built
\* without ENABLE_MICROS, init() writes no register of timer0: it sets the
\* I flag and does nothing else.
C16_SecondInit ==
  /\ [][((pc \in InitPcs \/ pc' \in InitPcs) /\ pc' # pc)
          => UNCHANGED <<timer0_overflow, wdt_counter>>]_vars
  /\ [][(ENABLE_MICROS /\ pc = "i_tcnt" /\ pc' # pc) => TCNT0' = 0]_vars
  /\ [][(pc \in InitPcs /\ pc' = "main") => SREG' = SREG \cup {"I"}]_vars
  /\ [][(~ENABLE_MICROS /\ (pc \in InitPcs \/ pc' \in InitPcs) /\ pc' # pc)
          => UNCHANGED <<TCCR0B, TIMSK0, TIFR0, TCNT0>>]_vars
  /\ [][(pc \in InitPcs /\ pc' # pc /\ SREG' # SREG) => pc' = "main"]_vars
  /\ [](~ENABLE_MICROS
          => (pc \in {"main", "i_sei"} /\ TCCR0B = {} /\ TIMSK0 = {} /\ TCNT0 = 0))

\* a second init() has zeroed the count register and the tally still holds
\* the overflow counted before it
C16_Witness ==
  /\ inits > 0
  /\ pc = "i_sei" /\ sinceInit = "zeroed"
  /\ TCNT0 = 0
  /\ timer0_overflow = U32(1)

====
